---- MODULE Spec2Model ----
(***************************************************************************)
(* Model of the binding resolver of docgen (src/main.rs): collect_entries, *)
(* collect_bindings, resolve_let_ident, find_let_binding,                  *)
(* collect_entry_information, retrieve_doc_item, retrieve_doc_comment and  *)
(* collect_lambda_args, run over a bounded family of Nix syntax trees.     *)
(***************************************************************************)
EXTENDS Integers, Sequences, FiniteSets, TLC

VARIABLES root, export, pc, let_in, scope, ident, selected, entries

vars == <<root, export, pc, let_in, scope, ident, selected, entries>>

(***************************************************************************)
(* Syntax nodes (rnix SyntaxNode / ast wrappers).  None is Option::None.   *)
(***************************************************************************)
None == [kind |-> "None"]

Some(v) == [kind |-> "Some", v |-> v]

NoComment == [kind |-> "None"]

Comment(marker, body) == [kind |-> "TOKEN_COMMENT", marker |-> marker, body |-> body]

Literal == [kind |-> "NODE_LITERAL"]

Ident(n) == [kind |-> "NODE_IDENT", name |-> n]

Str(n) == [kind |-> "NODE_STRING", name |-> n]

AttrpathValue(n, c, v) ==
    [kind |-> "NODE_ATTRPATH_VALUE", attrpath |-> n, comment |-> c, value |-> v]

Inherit(from, attrs) == [kind |-> "NODE_INHERIT", from |-> from, attrs |-> attrs]

AttrSet(children) == [kind |-> "NODE_ATTR_SET", children |-> children]

LetIn(children, body) == [kind |-> "NODE_LET_IN", children |-> children, body |-> body]

IdentParam(n, c) == [kind |-> "NODE_IDENT_PARAM", name |-> n, comment |-> c]

PatEntry(n, c, default) ==
    [kind |-> "NODE_PAT_ENTRY", name |-> n, comment |-> c, default |-> default]

Pattern(pat_entries) == [kind |-> "NODE_PATTERN", pat_entries |-> pat_entries]

Lambda(param, body) == [kind |-> "NODE_LAMBDA", param |-> param, body |-> body]

Root(expr) == [kind |-> "NODE_ROOT", expr |-> expr]

(***************************************************************************)
(* The child nodes of a node, in source order (rowan SyntaxNode::children).*)
(***************************************************************************)
Children(node) ==
    CASE node.kind = "NODE_ROOT" -> <<node.expr>>
      [] node.kind = "NODE_ATTR_SET" -> node.children
      [] node.kind = "NODE_ATTRPATH_VALUE" -> <<node.value>>
      [] node.kind = "NODE_INHERIT" ->
            IF node.from = None THEN <<>> ELSE <<node.from>>
      [] node.kind = "NODE_LET_IN" -> node.children \o <<node.body>>
      [] node.kind = "NODE_LAMBDA" -> <<node.param, node.body>>
      [] node.kind = "NODE_PATTERN" -> node.pat_entries
      [] node.kind = "NODE_PAT_ENTRY" ->
            IF node.default = None THEN <<>> ELSE <<node.default>>
      [] OTHER -> <<>>

\* F applied to the value of x, which is computed once.
Once(F(_), x) == CHOOSE r \in {F(v) : v \in {x}} : TRUE

\* The concatenation of the sequences ss[k], ss[k + 1], ...
RECURSIVE FlattenFrom(_, _)
FlattenFrom(ss, k) == IF k > Len(ss) THEN <<>> ELSE ss[k] \o FlattenFrom(ss, k + 1)

\* The concatenation of a sequence of sequences.
Flatten(ss) == Once(LAMBDA s : FlattenFrom(s, 1), ss \o <<>>)

(***************************************************************************)
(* The Enter events of a preorder walk from node, as a sequence of         *)
(* [n, inpat]: inpat records whether the node lies below a NODE_PATTERN.   *)
(* With skip, the walker calls skip_subtree() on entering a NODE_PATTERN.  *)
(***************************************************************************)
RECURSIVE preorder(_, _, _)
preorder(node, skip, inpat) ==
    Once(LAMBDA n :
            <<[n |-> n, inpat |-> inpat]>> \o
                IF skip /\ n.kind = "NODE_PATTERN"
                THEN <<>>
                ELSE Flatten([i \in 1..Len(Children(n)) |->
                                preorder(Children(n)[i], skip,
                                         inpat \/ n.kind = "NODE_PATTERN")]),
         node)

NoEvent == [n |-> None, inpat |-> FALSE]

\* The first event of evs whose node kind is in kinds, or NoEvent.
FirstOfKind(walk, kinds) ==
    Once(LAMBDA evs :
            IF \E i \in 1..Len(evs) : evs[i].n.kind \in kinds
            THEN evs[CHOOSE i \in 1..Len(evs) :
                        /\ evs[i].n.kind \in kinds
                        /\ \A j \in 1..(i - 1) : evs[j].n.kind \notin kinds]
            ELSE NoEvent,
         walk)

(***************************************************************************)
(* Strings.  A doc text is [paras, shift]: its paragraphs (the pieces      *)
(* between blank lines) and the amount its headings have been shifted by.  *)
(***************************************************************************)
Text(paras) == [paras |-> paras, shift |-> 0]

EmptyString == Text(<<>>)

unwrap_or(opt, default) == IF opt = None THEN default ELSE opt.v

\* comment::get_expr_docs: the body of the doc comment (marker /**) that
\* precedes the node; nothing if absent, an ordinary comment, or blank.
get_expr_docs(node) ==
    IF node.comment = NoComment THEN None
    ELSE IF node.comment.marker # "/**" THEN None
    ELSE IF node.comment.body = <<>> THEN None
    ELSE Some(Text(node.comment.body))

\* format::handle_indentation: None for an all-blank text.
handle_indentation(raw) == IF raw.paras = <<>> THEN None ELSE Some(raw)

\* format::shift_headings: shifting is additive.
shift_headings(raw, levels) == [raw EXCEPT !.shift = @ + levels]

retrieve_doc_comment(node, shift_headings_by) ==
    LET doc_comment == get_expr_docs(node)
    IN  IF doc_comment = None
        THEN None
        ELSE Some(shift_headings(unwrap_or(handle_indentation(doc_comment.v), EmptyString),
                                 unwrap_or(shift_headings_by, 2)))

SingleArg(node) ==
    [name |-> node.name,
     doc  |-> handle_indentation(unwrap_or(retrieve_doc_comment(node, Some(1)), EmptyString))]

Flat(arg) == [kind |-> "Flat", arg |-> arg]

PatternArg(args) == [kind |-> "Pattern", args |-> args]

ParamArgument(param) ==
    IF param.kind = "NODE_IDENT_PARAM"
    THEN Flat(SingleArg(param))
    ELSE PatternArg([i \in 1..Len(param.pat_entries) |-> SingleArg(param.pat_entries[i])])

\* Mutant: only the outermost lambda's parameter is collected.
collect_lambda_args_outermost(lambda) == <<ParamArgument(lambda.param)>>

RECURSIVE collect_lambda_args(_)
collect_lambda_args(lambda) ==
    Once(LAMBDA l :
            <<ParamArgument(l.param)>> \o
                IF l.body.kind = "NODE_LAMBDA"
                THEN collect_lambda_args(l.body)
                ELSE <<>>,
         lambda)

DocItem(name, doc, args) == [name |-> name, comment |-> doc, args |-> args]

\* Mutant: a missing doc comment becomes an empty one instead of no item.
retrieve_doc_item_default(node) ==
    Some(DocItem(node.attrpath, unwrap_or(retrieve_doc_comment(node, Some(2)), EmptyString), <<>>))

retrieve_doc_item(node) ==
    LET doc_comment == retrieve_doc_comment(node, Some(2))
    IN  IF doc_comment = None
        THEN None
        ELSE Some(DocItem(node.attrpath, doc_comment.v, <<>>))

collect_entry_information(entry) ==
    LET doc_item == retrieve_doc_item(entry)
    IN  IF doc_item = None
        THEN None
        ELSE IF entry.value.kind = "NODE_LAMBDA"
             THEN Some([doc_item.v EXCEPT !.args = collect_lambda_args(entry.value)])
             ELSE doc_item

Prefix == "lib"

Category == "math"

\* str::split("\n\n") of a doc text: one piece per paragraph, one empty
\* piece for the empty string.
split_paragraphs(doc) ==
    IF doc.paras = <<>>
    THEN <<[text |-> "", shift |-> doc.shift]>>
    ELSE [i \in 1..Len(doc.paras) |-> [text |-> doc.paras[i], shift |-> doc.shift]]

into_entry(di) ==
    [prefix      |-> Prefix,
     category    |-> Category,
     location    |-> None,
     name        |-> di.name,
     description |-> split_paragraphs(di.comment),
     fn_type     |-> None,
     example     |-> None,
     args        |-> di.args]

\* Option<DocItem> mapped through into_entry, as a 0- or 1-element sequence.
entry_of(apv) ==
    LET di == collect_entry_information(apv)
    IN  IF di = None THEN <<>> ELSE <<into_entry(di.v)>>

(***************************************************************************)
(* Scope: the HashMap built at lines 350-355, a function from the names of *)
(* the documented direct bindings of the let block to their entries; a     *)
(* later insert of the same key replaces the earlier one.                  *)
(***************************************************************************)
DocumentedAt(n, i) ==
    /\ n.children[i].kind = "NODE_ATTRPATH_VALUE"
    /\ entry_of(n.children[i]) # <<>>

\* The scope made of the children of n at the indexes in documented.
scope_of(n, documented) ==
    [k \in {n.children[i].attrpath : i \in documented} |->
        entry_of(n.children[CHOOSE i \in documented :
                               /\ n.children[i].attrpath = k
                               /\ \A j \in documented :
                                     j > i => n.children[j].attrpath # k])[1]]

build_scope(n) ==
    Once(LAMBDA l :
            Once(LAMBDA documented : scope_of(l, documented),
                 {j \in 1..Len(l.children) : DocumentedAt(l, j)}),
         n)

EmptyScope == [k \in {} |-> None]

scope_get(sc, name) == IF name \in DOMAIN sc THEN <<sc[name]>> ELSE <<>>

(***************************************************************************)
(* collect_bindings.  select_attr_set is the first NODE_ATTR_SET event of  *)
(* the unskipped preorder walk from node; child_entries is what one child  *)
(* of that set adds to the result.                                         *)
(***************************************************************************)
select_attr_set(node) == FirstOfKind(preorder(node, FALSE, FALSE), {"NODE_ATTR_SET"})

\* Mutant: the source expression of the inherit clause is not looked at.
inherit_entries_any_source(inh, sc) ==
    Flatten([i \in 1..Len(inh.attrs) |->
                IF inh.attrs[i].kind = "NODE_IDENT"
                THEN scope_get(sc, inh.attrs[i].name)
                ELSE <<>>])

inherit_entries(inh, sc) ==
    IF inh.from # None
    THEN <<>>
    ELSE Flatten([i \in 1..Len(inh.attrs) |->
                    IF inh.attrs[i].kind = "NODE_IDENT"
                    THEN scope_get(sc, inh.attrs[i].name)
                    ELSE <<>>])

child_entries(child, sc) ==
    IF child.kind = "NODE_ATTRPATH_VALUE" THEN entry_of(child)
    ELSE IF child.kind = "NODE_INHERIT" THEN inherit_entries(child, sc)
    ELSE <<>>

\* Mutant: two passes, the bindings first and the inherit clauses after.
attr_set_entries_two_passes(n, sc) ==
    Flatten([i \in 1..Len(n.children) |->
                IF n.children[i].kind = "NODE_ATTRPATH_VALUE"
                THEN child_entries(n.children[i], sc) ELSE <<>>])
      \o Flatten([i \in 1..Len(n.children) |->
                    IF n.children[i].kind = "NODE_INHERIT"
                    THEN child_entries(n.children[i], sc) ELSE <<>>])

attr_set_entries(n, sc) ==
    Flatten([i \in 1..Len(n.children) |-> child_entries(n.children[i], sc)])

collect_bindings(node, sc) ==
    Once(LAMBDA ev : IF ev = NoEvent THEN <<>> ELSE attr_set_entries(ev.n, sc),
         select_attr_set(node))

\* find_let_binding: the first attrpath-value entry of the let block whose
\* attrpath prints as name.
find_let_binding(l, name) ==
    LET hits == {i \in 1..Len(l.children) :
                    /\ l.children[i].kind = "NODE_ATTRPATH_VALUE"
                    /\ l.children[i].attrpath = name}
    IN  IF hits = {}
        THEN None
        ELSE Some(l.children[CHOOSE i \in hits : \A j \in hits : i <= j])

\* Mutant: the scope is walked (in name order) and filtered by the list.
export_entries_by_scope(exports, sc) ==
    Flatten([i \in 1..3 |->
                IF <<"f", "g", "x">>[i] \in {exports[j] : j \in 1..Len(exports)}
                THEN scope_get(sc, <<"f", "g", "x">>[i])
                ELSE <<>>])

\* The export list walked in order, each name looked up in the scope.
export_entries(exports, sc) ==
    Flatten([i \in 1..Len(exports) |-> scope_get(sc, exports[i])])

first_shape(r) == FirstOfKind(preorder(r, TRUE, FALSE), {"NODE_LET_IN", "NODE_ATTR_SET"})

(***************************************************************************)
(* The bounded family of input files and export lists.                     *)
(***************************************************************************)
MaxChildren == 2

MaxLet == 2

MaxExport == 2

Names == {"f", "g", "x"}

SeqsUpTo(S, n) == UNION {[1..k -> S] : k \in 0..n}

PlainComment == Comment("/*", <<"A">>)

BlankDoc == Comment("/**", <<>>)

Doc(t) == Comment("/**", <<t>>)

\* y: y
IdLambda == Lambda(IdentParam("y", NoComment), Ident("y"))

\* a: { b, /** C */ c }: d: 1
Curried ==
    Lambda(IdentParam("a", NoComment),
           Lambda(Pattern(<<PatEntry("b", NoComment, None), PatEntry("c", Doc("C"), None)>>),
                  Lambda(IdentParam("d", NoComment), Literal)))

\* { p ? { /** P */ f = 1; } }: body
PatSet == AttrSet(<<AttrpathValue("f", Doc("P"), Literal)>>)

PatLambda(body) == Lambda(Pattern(<<PatEntry("p", NoComment, PatSet)>>), body)

SetChildren ==
    { AttrpathValue("f", Doc("A"), Curried),
      AttrpathValue("g", Doc("A"), Literal),
      AttrpathValue("g", BlankDoc, IdLambda),
      AttrpathValue("x", NoComment, Literal),
      Inherit(None, <<Ident("x"), Str("f"), Ident("g")>>),
      Inherit(Ident("x"), <<Ident("g")>>) }

AttrSets == {AttrSet(ch) : ch \in SeqsUpTo(SetChildren, MaxChildren)}

\* Children of the sets that follow a let block.
BodyChildren ==
    { AttrpathValue("f", Doc("A"), Curried),
      AttrpathValue("g", NoComment, Literal),
      Inherit(None, <<Ident("x"), Str("f"), Ident("g")>>),
      Inherit(Ident("x"), <<Ident("g")>>) }

BodySets == {AttrSet(ch) : ch \in SeqsUpTo(BodyChildren, MaxChildren)}

\* Let blocks bind each name at most once (Nix rejects a repeated name).
UniqueNames(es) ==
    \A i, j \in 1..Len(es) :
        (i < j /\ es[i].kind = "NODE_ATTRPATH_VALUE" /\ es[j].kind = "NODE_ATTRPATH_VALUE")
            => es[i].attrpath # es[j].attrpath

LetBlocks(opts) == {es \in SeqsUpTo(opts, MaxLet) : UniqueNames(es)}

\* Let entries that only document (or not) a plain value.
DocEntries ==
    { AttrpathValue("f", Doc("L"), IdLambda),
      AttrpathValue("g", Doc("L"), Literal),
      AttrpathValue("g", BlankDoc, Literal),
      AttrpathValue("x", Doc("L"), Literal),
      AttrpathValue("x", PlainComment, Literal),
      Inherit(Ident("x"), <<Ident("g")>>) }

\* let x = { /** doc */ f = y: y; }; in x
ExampleSet == AttrSet(<<AttrpathValue("f", Doc("A"), IdLambda)>>)

InheritSet == AttrSet(<<Inherit(None, <<Ident("g")>>), AttrpathValue("x", Doc("A"), Literal)>>)

\* Let entries for alias chains; "u" is bound by no let block.  A binding of
\* a name to itself is left out: the shortest cycle has two names.
AliasEntries ==
    {AttrpathValue(nm[1], NoComment, Ident(nm[2])) :
        nm \in {p \in Names \X (Names \cup {"u"}) : p[1] # p[2]}}
        \cup { AttrpathValue("f", NoComment, ExampleSet),
               AttrpathValue("f", NoComment, PatLambda(Ident("p"))),
               AttrpathValue("g", Doc("L"), Literal),
               AttrpathValue("x", NoComment, InheritSet) }

\* --export takes at least one name.
Exports(names) == {None} \cup {Some(e) : e \in SeqsUpTo(names, MaxExport) \ {<<>>}}

Input(r, e) == [root |-> Root(r), export |-> e]

\* Files whose first shape is an attribute set, or that have none.
SetFirstInputs ==
    {Input(r, e) :
        r \in AttrSets
              \cup {Lambda(IdentParam("y", NoComment), s) : s \in {ExampleSet, InheritSet}}
              \cup {PatLambda(s) : s \in {ExampleSet, InheritSet}}
              \cup {PatLambda(Ident("p")), Literal, Ident("f")},
        e \in Exports({"g"})}

\* let <documented bindings> in <surface>, no export list.
LetBodyInputs ==
    {Input(LetIn(es, b), None) :
        es \in LetBlocks(DocEntries),
        b \in BodySets \cup {Literal, PatLambda(Ident("p")), PatLambda(ExampleSet),
                             Lambda(IdentParam("y", NoComment), InheritSet)}}

\* let <documented bindings> in <body>, with an export list.
LetExportInputs ==
    {Input(LetIn(es, b), e) :
        es \in LetBlocks(DocEntries),
        b \in {Literal, Ident("f"), ExampleSet},
        e \in Exports({"f", "g"}) \ {None}}

\* let <alias chains> in <identifier>, no export list.
AliasInputs ==
    {Input(LetIn(es, Ident(n)), None) :
        es \in LetBlocks(AliasEntries), n \in Names \cup {"u"}}

Inputs == SetFirstInputs \cup LetBodyInputs \cup LetExportInputs \cup AliasInputs

(***************************************************************************)
(* collect_entries as a state machine: pc is the position in the function. *)
(***************************************************************************)
Init ==
    /\ \E inp \in Inputs : root = inp.root /\ export = inp.export
    /\ pc = "start"
    /\ let_in = None
    /\ scope = EmptyScope
    /\ ident = None
    /\ selected = NoEvent
    /\ entries = <<>>

Return(node, sc) ==
    /\ selected' = select_attr_set(node)
    /\ entries' = collect_bindings(node, sc)
    /\ pc' = "done"

\* lines 374-376: an attribute set is the first shape.
EnterAttrSet ==
    /\ pc = "start"
    /\ \E n \in {first_shape(root).n} :
          /\ n.kind = "NODE_ATTR_SET"
          /\ Return(n, EmptyScope)
    /\ UNCHANGED <<root, export, let_in, scope, ident>>

\* lines 348-362: a let-in is the first shape and an export list is given.
EnterLetInExport ==
    /\ pc = "start"
    /\ export # None
    /\ \E n \in {first_shape(root).n} :
          /\ n.kind = "NODE_LET_IN"
          /\ let_in' = n
          /\ \E sc \in {build_scope(n)} :
                /\ scope' = sc
                /\ entries' = export_entries(export.v, sc)
    /\ pc' = "done"
    /\ UNCHANGED <<root, export, ident, selected>>

\* lines 348-356, 364-366, 372: no export list, the body is not an identifier.
EnterLetInBody ==
    /\ pc = "start"
    /\ export = None
    /\ \E n \in {first_shape(root).n} :
          /\ n.kind = "NODE_LET_IN"
          /\ n.body.kind # "NODE_IDENT"
          /\ let_in' = n
          /\ \E sc \in {build_scope(n)} :
                /\ scope' = sc
                /\ Return(n.body, sc)
    /\ UNCHANGED <<root, export, ident>>

\* lines 348-356, 364-367: no export list, the body is an identifier:
\* resolve_let_ident is called on it.
EnterLetInIdent ==
    /\ pc = "start"
    /\ export = None
    /\ \E n \in {first_shape(root).n} :
          /\ n.kind = "NODE_LET_IN"
          /\ n.body.kind = "NODE_IDENT"
          /\ let_in' = n
          /\ scope' = build_scope(n)
          /\ ident' = n.body
    /\ pc' = "resolve_let_ident"
    /\ UNCHANGED <<root, export, selected, entries>>

\* Mutant: an unresolved name falls back to scanning the whole let-in.
ResolveUnboundScansLet ==
    /\ pc = "resolve_let_ident"
    /\ find_let_binding(let_in, ident.name) = None
    /\ Return(let_in, scope)
    /\ UNCHANGED <<root, export, let_in, scope, ident>>

\* lines 325-326, then 367 and 372: the name is not bound; resolve_let_ident
\* returns None and collect_bindings runs on the body itself.
ResolveUnbound ==
    /\ pc = "resolve_let_ident"
    /\ find_let_binding(let_in, ident.name) = None
    /\ Return(let_in.body, scope)
    /\ UNCHANGED <<root, export, let_in, scope, ident>>

\* Mutant: an identifier value is taken as the resolved node, no recursion.
ResolveAliasOneHop ==
    /\ pc = "resolve_let_ident"
    /\ \E apv \in {find_let_binding(let_in, ident.name)} :
          /\ apv # None
          /\ apv.v.value.kind = "NODE_IDENT"
          /\ Return(apv.v.value, scope)
    /\ UNCHANGED <<root, export, let_in, scope, ident>>

\* lines 328-329: the binding's value is an identifier; recurse on it.
ResolveAlias ==
    /\ pc = "resolve_let_ident"
    /\ \E apv \in {find_let_binding(let_in, ident.name)} :
          /\ apv # None
          /\ apv.v.value.kind = "NODE_IDENT"
          /\ ident' = apv.v.value
    /\ UNCHANGED <<root, export, pc, let_in, scope, selected, entries>>

\* lines 330-331, then 367-368: the value is the resolved node.
ResolveValue ==
    /\ pc = "resolve_let_ident"
    /\ \E apv \in {find_let_binding(let_in, ident.name)} :
          /\ apv # None
          /\ apv.v.value.kind # "NODE_IDENT"
          /\ Return(apv.v.value, scope)
    /\ UNCHANGED <<root, export, let_in, scope, ident>>

\* line 381: neither shape is found.
NoShape ==
    /\ pc = "start"
    /\ first_shape(root) = NoEvent
    /\ entries' = <<>>
    /\ pc' = "done"
    /\ UNCHANGED <<root, export, let_in, scope, ident, selected>>

Next ==
    \/ EnterAttrSet
    \/ EnterLetInExport
    \/ EnterLetInBody
    \/ EnterLetInIdent
    \/ ResolveUnbound
    \/ ResolveAlias
    \/ ResolveValue
    \/ NoShape

Spec == Init /\ [][Next]_vars

\* The program runs to completion: every enabled step is eventually taken.
\* Every step of Next changes the position: pc, or the identifier that
\* resolve_let_ident is called on.
position == <<pc, ident>>

LiveSpec == Spec /\ WF_position(Next)

(***************************************************************************)
(* Vocabulary of the properties, stated on the syntax tree itself.         *)
(***************************************************************************)
Done == pc = "done"

Shape == first_shape(root).n

LetFirst == Shape.kind = "NODE_LET_IN"

SetFirst == Shape.kind = "NODE_ATTR_SET"

\* The node carries a doc comment that is not blank.
HasDoc(node) ==
    /\ node.comment.kind = "TOKEN_COMMENT"
    /\ node.comment.marker = "/**"
    /\ node.comment.body # <<>>

IsBinding(node) == node.kind = "NODE_ATTRPATH_VALUE"

\* Every node of the file.
AllNodes == Once(LAMBDA walk : {walk[i].n : i \in 1..Len(walk)}, preorder(root, FALSE, FALSE))

EntryNames == [i \in 1..Len(entries) |-> entries[i].name]

DescTexts(e) == [i \in 1..Len(e.description) |-> e.description[i].text]

\* The names the let block l documents directly.
DocumentedNames(l) ==
    {l.children[i].attrpath :
        i \in {j \in 1..Len(l.children) : IsBinding(l.children[j]) /\ HasDoc(l.children[j])}}

\* The let block l binds name to value.
Binds(l, name, value) ==
    \E i \in 1..Len(l.children) :
        /\ IsBinding(l.children[i])
        /\ l.children[i].attrpath = name
        /\ l.children[i].value = value

Bound(l, name) ==
    \E i \in 1..Len(l.children) : IsBinding(l.children[i]) /\ l.children[i].attrpath = name

\* The alias chains of l that start at name: every link is a binding of one
\* name to the identifier that follows it.
Chains(l, name) ==
    {c \in SeqsUpTo(Names \cup {"u"}, Len(l.children) + 1) :
        /\ c # <<>>
        /\ c[1] = name
        /\ \A i \in 1..(Len(c) - 1) : Binds(l, c[i], Ident(c[i + 1]))}

Range(seq) == {seq[i] : i \in 1..Len(seq)}

\* C1: with a let-in first and an export list, the result is the export list
\* walked in order, one entry for each listed name that the let block
\* documents directly and nothing for the others, whatever the body is.
ExportListOrder ==
    (Done /\ LetFirst /\ export # None) =>
        /\ EntryNames = SelectSeq(export.v, LAMBDA n : n \in DocumentedNames(Shape))
        /\ \A i \in 1..Len(entries) :
              \E j \in 1..Len(Shape.children) :
                 /\ IsBinding(Shape.children[j])
                 /\ HasDoc(Shape.children[j])
                 /\ Shape.children[j].attrpath = entries[i].name
                 /\ DescTexts(entries[i]) = Shape.children[j].comment.body

\* export = [g, f] over a let block that documents f and g and whose body
\* is a literal: the body yields nothing, g and f come out in list order.
ExportListOrderWitness ==
    /\ Done
    /\ LetFirst
    /\ export = Some(<<"g", "f">>)
    /\ Shape.body = Literal
    /\ EntryNames = <<"g", "f">>

\* C2: with an export list, every returned entry is named in the list,
\* whatever the first shape of the file is.
ExportOnlyListed ==
    (Done /\ export # None) => \A i \in 1..Len(entries) : entries[i].name \in Range(export.v)

\* C3: resolving the let body always comes to an end.
ResolveTerminates == <>Done

\* C4: no export list, the body is an identifier whose alias chain reaches
\* a name the let block does not bind: the result is empty.
UnresolvedAliasEmpty ==
    (Done /\ export = None /\ LetFirst /\ Shape.body.kind = "NODE_IDENT"
        /\ \E c \in Chains(Shape, Shape.body.name) : ~Bound(Shape, c[Len(c)]))
      => entries = <<>>

\* let f = u; /** L */ g = 1; in f
UnresolvedAliasEmptyWitness ==
    /\ Done
    /\ export = None
    /\ root = Root(LetIn(<<AttrpathValue("f", NoComment, Ident("u")),
                           AttrpathValue("g", Doc("L"), Literal)>>, Ident("f")))
    /\ ident = Ident("u")
    /\ entries = <<>>

DocBindingCount(set, name) ==
    Cardinality({i \in 1..Len(set.children) :
                    /\ IsBinding(set.children[i])
                    /\ HasDoc(set.children[i])
                    /\ set.children[i].attrpath = name})

BareInheritCount(set, name) ==
    Cardinality({ij \in (1..Len(set.children)) \X (1..3) :
                    /\ set.children[ij[1]].kind = "NODE_INHERIT"
                    /\ set.children[ij[1]].from = None
                    /\ ij[2] <= Len(set.children[ij[1]].attrs)
                    /\ set.children[ij[1]].attrs[ij[2]] = Ident(name)})

EntryCount(name) == Cardinality({i \in 1..Len(entries) : entries[i].name = name})

\* The names in the Scope of the enclosing let-in traversal.
EnclosingScopeNames == IF LetFirst THEN DocumentedNames(Shape) ELSE {}

\* C6: an inherit clause of the selected set adds an entry for a name only
\* if it is bare and the enclosing let block documents the name; beyond the
\* set's own documented bindings nothing else is in the result.
InheritOnlyBareInScope ==
    (Done /\ selected # NoEvent) =>
        \A name \in Names :
            EntryCount(name) =
                DocBindingCount(selected.n, name)
                  + (IF name \in EnclosingScopeNames
                     THEN BareInheritCount(selected.n, name)
                     ELSE 0)

\* let ... /** L */ g = 1; in { inherit (x) g; }: no entry.
InheritOnlyBareInScopeWitness ==
    /\ Done
    /\ LetFirst
    /\ "g" \in DOMAIN scope
    /\ selected.n = AttrSet(<<Inherit(Ident("x"), <<Ident("g")>>)>>)
    /\ entries = <<>>

\* The chain of directly nested lambdas that starts at value.
RECURSIVE LambdaChain(_)
LambdaChain(value) ==
    IF value.kind = "NODE_LAMBDA" THEN <<value>> \o LambdaChain(value.body) ELSE <<>>

ArgNames(arg) ==
    IF arg.kind = "Flat"
    THEN <<arg.arg.name>>
    ELSE [i \in 1..Len(arg.args) |-> arg.args[i].name]

ParamNames(param) ==
    IF param.kind = "NODE_IDENT_PARAM"
    THEN <<param.name>>
    ELSE [i \in 1..Len(param.pat_entries) |-> param.pat_entries[i].name]

ArgsFollow(args, value) ==
    /\ Len(args) = Len(LambdaChain(value))
    /\ \A k \in 1..Len(args) :
          /\ (args[k].kind = "Flat") = (LambdaChain(value)[k].param.kind = "NODE_IDENT_PARAM")
          /\ (args[k].kind = "Pattern") = (LambdaChain(value)[k].param.kind = "NODE_PATTERN")
          /\ ArgNames(args[k]) = ParamNames(LambdaChain(value)[k].param)

\* C7: the args of an entry are one Argument per lambda of the chain of
\* directly nested lambdas of its binding's value, outermost first: Flat for
\* an identifier parameter, Pattern with the fields in order otherwise.
ArgsFollowLambdaChain ==
    Done =>
        \A i \in 1..Len(entries) :
            \E b \in AllNodes :
                /\ IsBinding(b)
                /\ HasDoc(b)
                /\ b.attrpath = entries[i].name
                /\ DescTexts(entries[i]) = b.comment.body
                /\ ArgsFollow(entries[i].args, b.value)

\* a: { b, c }: d: 1 gives [Flat(a), Pattern([b, c]), Flat(d)].
ArgsFollowLambdaChainWitness ==
    /\ Done
    /\ \E i \in 1..Len(entries) :
          /\ Len(entries[i].args) = 3
          /\ entries[i].args[1].kind = "Flat" /\ ArgNames(entries[i].args[1]) = <<"a">>
          /\ entries[i].args[2].kind = "Pattern" /\ ArgNames(entries[i].args[2]) = <<"b", "c">>
          /\ entries[i].args[3].kind = "Flat" /\ ArgNames(entries[i].args[3]) = <<"d">>

\* The names a set declares, in source order: the attrpath of each binding,
\* the attributes of each inherit clause.
DeclaredNames(set) ==
    Flatten([i \in 1..Len(set.children) |->
                IF IsBinding(set.children[i])
                THEN <<set.children[i].attrpath>>
                ELSE [j \in 1..Len(set.children[i].attrs) |-> set.children[i].attrs[j].name]])

NoRepeat(seq) == \A i, j \in 1..Len(seq) : i # j => seq[i] # seq[j]

IndexOf(seq, x) == CHOOSE i \in 1..Len(seq) : seq[i] = x

\* C8: with no export list the entries keep the source order of the
\* selected set's children (for a set that declares no name twice).
SourceOrder ==
    (Done /\ export = None /\ selected # NoEvent /\ NoRepeat(DeclaredNames(selected.n))) =>
        /\ \A i \in 1..Len(entries) : entries[i].name \in Range(DeclaredNames(selected.n))
        /\ \A i, j \in 1..Len(entries) :
              i < j => IndexOf(DeclaredNames(selected.n), entries[i].name)
                         < IndexOf(DeclaredNames(selected.n), entries[j].name)

\* let ... /** L */ g = 1; ... in { inherit g; /** A */ x = 1; }: the
\* inherited g comes before the binding x.
SourceOrderWitness ==
    /\ Done
    /\ export = None
    /\ LetFirst
    /\ selected.n = AttrSet(<<Inherit(None, <<Ident("g")>>), AttrpathValue("x", Doc("A"), Literal)>>)
    /\ EntryNames = <<"g", "x">>

\* C9: the selected attribute set never lies inside a parameter pattern.
SelectedOutsidePattern == Done => ~selected.inpat

\* C10: no export list, the body is an identifier whose alias chain ends at
\* a binding with a value E that is not an identifier: the result is that
\* of scanning E with the let block's Scope.
AliasChainResolves ==
    (Done /\ export = None /\ LetFirst /\ Shape.body.kind = "NODE_IDENT") =>
        \A c \in Chains(Shape, Shape.body.name) :
            \A i \in 1..Len(Shape.children) :
                (/\ IsBinding(Shape.children[i])
                 /\ Shape.children[i].attrpath = c[Len(c)]
                 /\ Shape.children[i].value.kind # "NODE_IDENT")
                  => entries = collect_bindings(Shape.children[i].value, build_scope(Shape))

\* let x = f; f = { /** A */ f = y: y; }; in x: one entry f.
AliasChainResolvesWitness ==
    /\ Done
    /\ export = None
    /\ root = Root(LetIn(<<AttrpathValue("x", NoComment, Ident("f")),
                           AttrpathValue("f", NoComment, ExampleSet)>>, Ident("x")))
    /\ EntryNames = <<"f">>

====
